---------------------------- MODULE Spec2Model ----------------------------
(***************************************************************************)
(* A model of the bollardo reconciler (src/src/main.rs): one cooperative   *)
(* loop that lists the containers of a service, classifies them, cleans    *)
(* up the dead ones, and then performs a rolling update, a scale-up or a   *)
(* scale-down.  Every await on the container runtime is one step of the    *)
(* model; the runtime answers each call with success or failure.           *)
(*                                                                         *)
(* Conventions                                                             *)
(*   Option<T>   None is <<>>, Some(x) is <<x>>.                           *)
(*   String      a status text is a sequence of characters, each a string, *)
(*               so that to_lowercase and contains are computed.           *)
(*   identifier  a natural number; 0 stands for the empty string, the      *)
(*               value unwrap_or_default gives a missing identifier.       *)
(*   Instant     BackoffState.last_failure holds Some(e), where e is the   *)
(*               value last.elapsed() has now, in whole seconds, kept up   *)
(*               to FAILURE_RESET_AFTER_SECS + 1 (the code compares it     *)
(*               with 30 and with 300 only).                               *)
(***************************************************************************)
EXTENDS Naturals, Sequences, FiniteSets

VARIABLES
    containers,   \* the runtime's containers of the service, in list order
    desired,      \* DesiredState: the replica count, fixed at start
    backoff,      \* BackoffState
    pc,           \* the await the loop is at
    phase,        \* which loop of reconcile the await belongs to
    i,            \* the index of that loop
    listing,      \* the list result of this tick
    running,      \* reconcile's local: ids classified running
    dead,         \* reconcile's local: ids classified dead
    outdated,     \* reconcile's local: running ids with a stale version
    new_id,       \* spawn_replica_and_get_id's container_name
    gate,         \* what in_backoff() returned this tick: none, open, closed
    result,       \* what reconcile returned: none (still running), ok, err
    prev_result,  \* what the previous call of reconcile returned
    log,          \* the runtime calls issued in this tick, in order
    ticks,        \* the number of this call of reconcile, from 1
    hist          \* history of the ticks' observations (for the backoff claims)

vars == <<containers, desired, backoff, pc, phase, i, listing, running, dead,
          outdated, new_id, gate, result, prev_result, log, ticks, hist>>

---------------------------------------------------------------------------
(* Program constants *)

DESIRED_REPLICAS == 3
MAX_CONSECUTIVE_FAILURES == 5
BACKOFF_DURATION_SECS == 30
FAILURE_RESET_AFTER_SECS == 300
TICK_INTERVAL_SECS == 5
SETTLE_SECS == 3
STOP_GRACE_SECS == 5
IMAGE == "nginx:alpine"

(* Bounds of the model *)

MaxObs == 2          \* records in a list result drawn for the classification
MaxInit == 3         \* containers of the service when the loop starts
MaxContainers == 4   \* containers the runtime holds at once
MaxFailures == 6     \* cap of consecutive_failures (a u32 in the code)
MaxTicks == 2        \* calls of reconcile in a run of Spec
MaxInitLong == 1     \* containers when the loop starts, in a run of SpecLong
MaxContainersLong == 4   \* containers the runtime holds at once, in SpecLong
MaxTicksLong == 7    \* calls of reconcile in a run of SpecLong
FaultyTicks == 1     \* ticks of SpecConverge in which calls may fail

---------------------------------------------------------------------------
(* Options and strings *)

None == <<>>
Some(x) == <<x>>
unwrap_or(opt, d) == IF opt = None THEN d ELSE opt[1]

EmptyId == 0

(* str::to_lowercase (line 95) lower-cases by the Unicode tables.  The     *)
(* model computes it on this alphabet: ASCII, the Latin-1 Supplement, the  *)
(* Greek letters U+0391 to U+03CB, the Cyrillic letters U+0400 to U+045F,  *)
(* U+0130, U+0307 and U+1E9E.  An ASCII character is the one-character     *)
(* string; a character outside ASCII is written by its code point, as the  *)
(* string of a backslash, u and four hexadecimal digits (so is the grave   *)
(* accent, U+0060, which a string of TLA+ cannot hold).                    *)

UpperAscii == <<"A","B","C","D","E","F","G","H","I","J","K","L","M",
                "N","O","P","Q","R","S","T","U","V","W","X","Y","Z">>
LowerAscii == <<"a","b","c","d","e","f","g","h","i","j","k","l","m",
                "n","o","p","q","r","s","t","u","v","w","x","y","z">>

(* the upper-case letters outside ASCII whose lower case is one character  *)
UpperWide ==
    <<"\\u00C0","\\u00C1","\\u00C2","\\u00C3","\\u00C4","\\u00C5","\\u00C6","\\u00C7",
      "\\u00C8","\\u00C9","\\u00CA","\\u00CB","\\u00CC","\\u00CD","\\u00CE","\\u00CF",
      "\\u00D0","\\u00D1","\\u00D2","\\u00D3","\\u00D4","\\u00D5","\\u00D6","\\u00D8",
      "\\u00D9","\\u00DA","\\u00DB","\\u00DC","\\u00DD","\\u00DE","\\u0391","\\u0392",
      "\\u0393","\\u0394","\\u0395","\\u0396","\\u0397","\\u0398","\\u0399","\\u039A",
      "\\u039B","\\u039C","\\u039D","\\u039E","\\u039F","\\u03A0","\\u03A1","\\u03A3",
      "\\u03A4","\\u03A5","\\u03A6","\\u03A7","\\u03A8","\\u03A9","\\u03AA","\\u03AB",
      "\\u0400","\\u0401","\\u0402","\\u0403","\\u0404","\\u0405","\\u0406","\\u0407",
      "\\u0408","\\u0409","\\u040A","\\u040B","\\u040C","\\u040D","\\u040E","\\u040F",
      "\\u0410","\\u0411","\\u0412","\\u0413","\\u0414","\\u0415","\\u0416","\\u0417",
      "\\u0418","\\u0419","\\u041A","\\u041B","\\u041C","\\u041D","\\u041E","\\u041F",
      "\\u0420","\\u0421","\\u0422","\\u0423","\\u0424","\\u0425","\\u0426","\\u0427",
      "\\u0428","\\u0429","\\u042A","\\u042B","\\u042C","\\u042D","\\u042E","\\u042F",
      "\\u1E9E">>
LowerWide ==
    <<"\\u00E0","\\u00E1","\\u00E2","\\u00E3","\\u00E4","\\u00E5","\\u00E6","\\u00E7",
      "\\u00E8","\\u00E9","\\u00EA","\\u00EB","\\u00EC","\\u00ED","\\u00EE","\\u00EF",
      "\\u00F0","\\u00F1","\\u00F2","\\u00F3","\\u00F4","\\u00F5","\\u00F6","\\u00F8",
      "\\u00F9","\\u00FA","\\u00FB","\\u00FC","\\u00FD","\\u00FE","\\u03B1","\\u03B2",
      "\\u03B3","\\u03B4","\\u03B5","\\u03B6","\\u03B7","\\u03B8","\\u03B9","\\u03BA",
      "\\u03BB","\\u03BC","\\u03BD","\\u03BE","\\u03BF","\\u03C0","\\u03C1","\\u03C3",
      "\\u03C4","\\u03C5","\\u03C6","\\u03C7","\\u03C8","\\u03C9","\\u03CA","\\u03CB",
      "\\u0450","\\u0451","\\u0452","\\u0453","\\u0454","\\u0455","\\u0456","\\u0457",
      "\\u0458","\\u0459","\\u045A","\\u045B","\\u045C","\\u045D","\\u045E","\\u045F",
      "\\u0430","\\u0431","\\u0432","\\u0433","\\u0434","\\u0435","\\u0436","\\u0437",
      "\\u0438","\\u0439","\\u043A","\\u043B","\\u043C","\\u043D","\\u043E","\\u043F",
      "\\u0440","\\u0441","\\u0442","\\u0443","\\u0444","\\u0445","\\u0446","\\u0447",
      "\\u0448","\\u0449","\\u044A","\\u044B","\\u044C","\\u044D","\\u044E","\\u044F",
      "\\u00DF">>

Upper == UpperAscii \o UpperWide
Lower == LowerAscii \o LowerWide

GraveAccent == "\\u0060"
CapitalIDot == "\\u0130"
CombiningDot == "\\u0307"
CapitalSigma == "\\u03A3"
SmallSigma == "\\u03C3"
FinalSigma == "\\u03C2"

(* char::to_lowercase, as a function of the upper-case letters of Upper *)
LowerOf ==
    [c \in {Upper[k] : k \in 1..Len(Upper)} |->
        Lower[CHOOSE k \in 1..Len(Upper) : Upper[k] = c]]

(* char::to_lowercase: the characters a character lower-cases to; U+0130   *)
(* is the one character that lower-cases to two                            *)
LowerChar(c) ==
    IF c = CapitalIDot THEN <<"i", CombiningDot>>
    ELSE IF c \in DOMAIN LowerOf THEN <<LowerOf[c]>>
    ELSE <<c>>

(* the cased characters of the alphabet that are neither in Upper nor in   *)
(* Lower: U+0130, the final sigma, the lower-case letters of Latin-1       *)
(* without an upper-case letter of one character in the alphabet, and the  *)
(* Greek small letters with tonos, U+03AC to U+03B0                        *)
CasedOther ==
    {CapitalIDot, FinalSigma,
     "\\u00AA", "\\u00B5", "\\u00BA", "\\u00DF", "\\u00FF",
     "\\u03AC", "\\u03AD", "\\u03AE", "\\u03AF", "\\u03B0"}

(* char::is_cased, on the alphabet *)
is_cased(c) ==
    \/ \E k \in 1..Len(Upper) : c = Upper[k] \/ c = Lower[k]
    \/ c \in CasedOther

(* char::is_case_ignorable, on the alphabet *)
is_case_ignorable(c) ==
    c \in {"'", ".", ":", "^", GraveAccent, CombiningDot,
           "\\u00A8", "\\u00AD", "\\u00AF", "\\u00B4", "\\u00B7", "\\u00B8"}

(* cs are the characters in the order the iterator gives them *)
RECURSIVE case_ignorable_then_cased(_)
case_ignorable_then_cased(cs) ==
    IF cs = <<>> THEN FALSE
    ELSE IF is_case_ignorable(Head(cs))
         THEN case_ignorable_then_cased(Tail(cs))
         ELSE is_cased(Head(cs))

Reverse(s) == [k \in 1..Len(s) |-> s[Len(s) + 1 - k]]

(* the capital sigma at position k of from is lower-cased to the final     *)
(* sigma when it ends a word: a cased letter before it and none after it,  *)
(* case-ignorable characters skipped                                       *)
map_uppercase_sigma(from, k) ==
    IF /\ case_ignorable_then_cased(Reverse(SubSeq(from, 1, k - 1)))
       /\ ~case_ignorable_then_cased(SubSeq(from, k + 1, Len(from)))
    THEN FinalSigma
    ELSE SmallSigma

RECURSIVE LowerFrom(_, _)
LowerFrom(s, k) ==
    IF k > Len(s) THEN <<>>
    ELSE (IF s[k] = CapitalSigma
          THEN <<map_uppercase_sigma(s, k)>>
          ELSE LowerChar(s[k])) \o LowerFrom(s, k + 1)

to_lowercase(s) == LowerFrom(s, 1)

contains(s, sub) ==
    \E k \in 0..Len(s) :
        /\ k + Len(sub) <= Len(s)
        /\ SubSeq(s, k + 1, k + Len(sub)) = sub

StrUp3 == <<"U","p"," ","3"," ","s","e","c","o","n","d","s">>
StrUpper == <<"R","U","N","N","I","N","G">>
StrExited1 == <<"E","x","i","t","e","d"," ","(","1",")">>
StrExited0 == <<"E","x","i","t","e","d"," ","(","0",")">>
StrCreated == <<"C","r","e","a","t","e","d">>
StrEmpty == <<>>

---------------------------------------------------------------------------
(* State Observer: reconcile, lines 89-106 *)

(* is_running without the to_lowercase of line 95 *)
is_running_case_sensitive(state, status) ==
    \/ state = "RUNNING"
    \/ contains(status, <<"u","p">>)
    \/ contains(status, <<"r","u","n","n","i","n","g">>)

(* lines 95-99: low is the status of line 95, lower-cased once *)
is_running(state, status) ==
    \E low \in {to_lowercase(status)} :
        \/ state = "RUNNING"
        \/ contains(low, <<"u","p">>)
        \/ contains(low, <<"r","u","n","n","i","n","g">>)

(* lines 94-99: state and status are the locals of lines 94 and 95 *)
SummaryRunning(c) ==
    \E state \in {unwrap_or(c.state, "EMPTY")} :
    \E status \in {unwrap_or(c.status, StrEmpty)} :
        is_running(state, status)

SummaryId(c) == unwrap_or(c.id, EmptyId)

(* Classify skipping the dead records that lack an identifier *)
RECURSIVE ClassifyDropsDead(_)
ClassifyDropsDead(cs) ==
    IF cs = <<>> THEN [running |-> <<>>, dead |-> <<>>]
    ELSE LET rest == ClassifyDropsDead(Tail(cs))
             id == SummaryId(Head(cs))
         IN IF SummaryRunning(Head(cs))
            THEN [rest EXCEPT !.running = <<id>> \o @]
            ELSE IF id = EmptyId THEN rest
                 ELSE [rest EXCEPT !.dead = <<id>> \o @]

RECURSIVE Classify(_)
Classify(cs) ==
    IF cs = <<>> THEN [running |-> <<>>, dead |-> <<>>]
    ELSE LET rest == Classify(Tail(cs))
             id == SummaryId(Head(cs))
         IN IF SummaryRunning(Head(cs))
            THEN [rest EXCEPT !.running = <<id>> \o @]
            ELSE [rest EXCEPT !.dead = <<id>> \o @]

---------------------------------------------------------------------------
(* Backoff Tracker: BackoffState, lines 24-55 *)

Min(a, b) == IF a < b THEN a ELSE b

BackoffDefault == [consecutive_failures |-> 0, last_failure |-> None]

register_failure(b) ==
    [consecutive_failures |-> b.consecutive_failures + 1,
     last_failure |-> Some(0)]

(* maybe_reset with >= for the > of line 38 *)
maybe_reset_inclusive(b) ==
    IF /\ b.last_failure /= None
       /\ b.last_failure[1] >= FAILURE_RESET_AFTER_SECS
    THEN [consecutive_failures |-> 0, last_failure |-> None]
    ELSE b

maybe_reset(b) ==
    IF /\ b.last_failure /= None
       /\ b.last_failure[1] > FAILURE_RESET_AFTER_SECS
    THEN [consecutive_failures |-> 0, last_failure |-> None]
    ELSE b

(* in_backoff with > for the >= of line 47 *)
in_backoff_above_threshold(b) ==
    /\ b.last_failure /= None
    /\ b.consecutive_failures > MAX_CONSECUTIVE_FAILURES
    /\ b.last_failure[1] < BACKOFF_DURATION_SECS

in_backoff(b) ==
    /\ b.last_failure /= None
    /\ b.consecutive_failures >= MAX_CONSECUTIVE_FAILURES
    /\ b.last_failure[1] < BACKOFF_DURATION_SECS

(* d seconds pass: every recorded Instant is d seconds older *)
Elapse(b, d) ==
    IF b.last_failure = None THEN b
    ELSE [b EXCEPT !.last_failure =
              Some(Min(@[1] + d, FAILURE_RESET_AFTER_SECS + 1))]

---------------------------------------------------------------------------
(* The container runtime (bollard::Docker), as reconcile uses it.  A        *)
(* container is [id, state, status, version]: what list and inspect report  *)
(* of it.  The runtime holds a container to be running when its reported   *)
(* state or status says so; it lists the newest container first.           *)

Container(id, p) ==
    [id |-> id, state |-> p.state, status |-> p.status, version |-> p.version]

ProfCurrent ==
    [state |-> Some("RUNNING"), status |-> Some(StrUp3), version |-> Some(IMAGE)]
ProfStale ==
    [state |-> Some("RUNNING"), status |-> Some(StrUp3), version |-> Some("nginx:1.0")]
ProfNoLabel ==
    [state |-> None, status |-> Some(StrUp3), version |-> None]
ProfExited ==
    [state |-> Some("EXITED"), status |-> Some(StrExited1), version |-> Some(IMAGE)]
ProfCreated ==
    [state |-> Some("CREATED"), status |-> Some(StrCreated), version |-> Some(IMAGE)]

Profiles == {ProfCurrent, ProfStale, ProfNoLabel, ProfExited}

Ids(cs) == {cs[k].id : k \in 1..Len(cs)}
Elems(s) == {s[k] : k \in 1..Len(s)}
Exists(cs, id) == id \in Ids(cs)
Find(cs, id) == cs[CHOOSE k \in 1..Len(cs) : cs[k].id = id]
IsUp(cs, id) == Exists(cs, id) /\ SummaryRunning(Find(cs, id))
RunningIds(cs) == {id \in Ids(cs) : IsUp(cs, id)}

(* list_containers, lines 80-87: the records of the service, fields as Options *)
list_containers(cs) ==
    [k \in 1..Len(cs) |->
        [id |-> Some(cs[k].id), state |-> cs[k].state, status |-> cs[k].status]]

(* inspect_container and the label lookup, lines 131-140 *)
inspect_version(cs, id) == Find(cs, id).version

(* create_container without the version label of line 191 *)
create_container_unlabelled(cs, name) ==
    <<[Container(name, ProfCreated) EXCEPT !.version = None]>> \o cs

(* create_container with the labels of lines 188-207 *)
create_container(cs, name) == <<Container(name, ProfCreated)>> \o cs

(* start_container, lines 210-212 *)
start_container(cs, name) ==
    [k \in 1..Len(cs) |->
        IF cs[k].id = name
        THEN [cs[k] EXCEPT !.state = Some("RUNNING"), !.status = Some(StrUp3)]
        ELSE cs[k]]

(* stop_container, line 241 *)
stop_container(cs, id) ==
    [k \in 1..Len(cs) |->
        IF cs[k].id = id
        THEN [cs[k] EXCEPT !.state = Some("EXITED"), !.status = Some(StrExited0)]
        ELSE cs[k]]

(* remove_container, lines 244-253; the runtime refuses to remove a running *)
(* container unless force is set                                            *)
RemoveForce == FALSE
CanRemove(cs, id, force) == Exists(cs, id) /\ (force \/ ~IsUp(cs, id))
remove_container(cs, id) == SelectSeq(cs, LAMBDA c : c.id /= id)

(* Uuid::new_v4, line 186: a name no container known to this tick bears *)
IdPool == 1..(2 * MaxContainers)
FreshId ==
    LET used == Ids(containers) \cup Elems(running) \cup Elems(dead)
    IN CHOOSE n \in IdPool \ used : \A m \in IdPool \ used : n <= m

Call(op, id, ok) == [op |-> op, id |-> id, ok |-> ok, t |-> 0, force |-> FALSE]
StopCall(id, ok) == [Call("stop", id, ok) EXCEPT !.t = STOP_GRACE_SECS]
RemoveCall(id, ok) == [Call("remove", id, ok) EXCEPT !.force = RemoveForce]

---------------------------------------------------------------------------
(* Reconciler: the control flow of reconcile between two awaits *)

Ctl(p, ph, k, res, g) == [pc |-> p, phase |-> ph, i |-> k, result |-> res, gate |-> g]
End(res, ph, g) == Ctl("sleep", ph, 0, res, g)

(* to_spawn with an inclusive range for the 0..to_spawn of line 165 *)
to_spawn_inclusive(run, des) == des - Len(run) + 1

to_spawn(run, des) == des - Len(run)
to_kill(run, des) == Len(run) - des

(* Decide with <= for the < of line 152 *)
DecideSpawnAtDesired(run, outd, b, des) ==
    IF outd /= <<>> THEN Ctl("create", "roll", 1, "none", "none")
    ELSE IF Len(run) <= des
         THEN IF in_backoff(b) THEN End("ok", "backoff", "closed")
              ELSE Ctl("create", "up", 1, "none", "open")
    ELSE IF Len(run) > des THEN Ctl("stop", "down", 1, "none", "none")
    ELSE End("ok", "steady", "none")

(* Decide with a rolling update that removes the old replica first *)
DecideKillFirst(run, outd, b, des) ==
    IF outd /= <<>> THEN Ctl("stop", "roll", 1, "none", "none")
    ELSE IF Len(run) < des
         THEN IF in_backoff(b) THEN End("ok", "backoff", "closed")
              ELSE Ctl("create", "up", 1, "none", "open")
    ELSE IF Len(run) > des THEN Ctl("stop", "down", 1, "none", "none")
    ELSE End("ok", "steady", "none")

(* Decide with the scale adjustments before the drift check *)
DecideScaleFirst(run, outd, b, des) ==
    IF Len(run) < des
    THEN IF in_backoff(b) THEN End("ok", "backoff", "closed")
         ELSE Ctl("create", "up", 1, "none", "open")
    ELSE IF Len(run) > des THEN Ctl("stop", "down", 1, "none", "none")
    ELSE IF outd /= <<>> THEN Ctl("create", "roll", 1, "none", "none")
    ELSE End("ok", "steady", "none")

(* Decide with the backoff gate before the scale-down as well *)
DecideGateAll(run, outd, b, des) ==
    IF outd /= <<>> THEN Ctl("create", "roll", 1, "none", "none")
    ELSE IF Len(run) /= des /\ in_backoff(b) THEN End("ok", "backoff", "closed")
    ELSE IF Len(run) < des THEN Ctl("create", "up", 1, "none", "open")
    ELSE IF Len(run) > des THEN Ctl("stop", "down", 1, "none", "none")
    ELSE End("ok", "steady", "none")

(* Decide without the scale-down of lines 171-179 *)
DecideNoScaleDown(run, outd, b, des) ==
    IF outd /= <<>> THEN Ctl("create", "roll", 1, "none", "none")
    ELSE IF Len(run) < des
         THEN IF in_backoff(b) THEN End("ok", "backoff", "closed")
              ELSE Ctl("create", "up", 1, "none", "open")
    ELSE End("ok", "steady", "none")

(* Decide with a rolling update that begins at the first outdated replica *)
DecideRollFromOutdated(run, outd, b, des) ==
    IF outd /= <<>>
    THEN Ctl("create", "roll",
             CHOOSE k \in 1..Len(run) :
                 /\ run[k] = outd[1]
                 /\ \A j \in 1..(k - 1) : run[j] /= outd[1],
             "none", "none")
    ELSE IF Len(run) < des
         THEN IF in_backoff(b) THEN End("ok", "backoff", "closed")
              ELSE Ctl("create", "up", 1, "none", "open")
    ELSE IF Len(run) > des THEN Ctl("stop", "down", 1, "none", "none")
    ELSE End("ok", "steady", "none")

(* lines 147-183 *)
Decide(run, outd, b, des) ==
    IF outd /= <<>> THEN Ctl("create", "roll", 1, "none", "none")
    ELSE IF Len(run) < des
         THEN IF in_backoff(b) THEN End("ok", "backoff", "closed")
              ELSE Ctl("create", "up", 1, "none", "open")
    ELSE IF Len(run) > des THEN Ctl("stop", "down", 1, "none", "none")
    ELSE End("ok", "steady", "none")

(* lines 126-145: the inspection loop starts, or is empty *)
StartInspect(run, b, des) ==
    IF run = <<>> THEN Decide(run, <<>>, b, des)
    ELSE Ctl("inspect", "inspect", 1, "none", "none")

(* lines 121-124: the cleanup loop starts, or is empty *)
StartCleanup(dd, run, b, des) ==
    IF dd = <<>> THEN StartInspect(run, b, des)
    ELSE Ctl("stop", "dead", 1, "none", "none")

Apply(c) ==
    /\ pc' = c.pc
    /\ phase' = c.phase
    /\ i' = c.i
    /\ result' = c.result
    /\ gate' = c.gate

(* Target with the scale-down taking the last entries of running *)
TargetFromTail ==
    IF phase = "dead" THEN dead[i]
    ELSE IF phase = "down" THEN running[Len(running) + 1 - i]
    ELSE running[i]

(* the id graceful_remove_container is called with *)
Target == IF phase = "dead" THEN dead[i] ELSE running[i]

---------------------------------------------------------------------------
(* History of the observations, kept beside the program for the claims     *)
(* about the backoff: it is computed from what the ticks observed and from *)
(* the time that passed, never from BackoffState.                          *)
(*   streak  consecutive ticks up to now that observed a non-empty dead    *)
(*   span    seconds since the first observation of that streak            *)
(*   since   seconds since the last observation of a non-empty dead        *)
(*   hit     this tick was the fifth of a streak, at most 30s after its    *)
(*           first                                                         *)
(*   quiet   this tick observed an empty dead more than 300s after the     *)
(*           last non-empty one                                            *)
(*   ever5   an earlier tick was such a fifth tick                         *)
(*   armed   ever5, and no tick since has observed an empty dead more than *)
(*           300s after the last non-empty one                             *)
(*   rolled  the previous tick went into the rolling update                *)

HistInit ==
    [streak |-> 0, span |-> None, since |-> None,
     hit |-> FALSE, quiet |-> FALSE, ever5 |-> FALSE, armed |-> FALSE,
     rolled |-> FALSE]

Older(opt, d) ==
    IF opt = None THEN None
    ELSE Some(Min(opt[1] + d, FAILURE_RESET_AFTER_SECS + 1))

HistElapse(h, d) == [h EXCEPT !.span = Older(@, d), !.since = Older(@, d)]

HistObserve(h, dd) ==
    IF dd /= <<>>
    THEN LET n == Min(h.streak + 1, MAX_CONSECUTIVE_FAILURES)
             sp == IF h.streak = 0 THEN Some(0) ELSE h.span
         IN [h EXCEPT !.streak = n, !.span = sp, !.since = Some(0),
                      !.hit = /\ h.streak + 1 = MAX_CONSECUTIVE_FAILURES
                              /\ sp[1] <= BACKOFF_DURATION_SECS]
    ELSE LET quiet == /\ h.since /= None
                      /\ h.since[1] > FAILURE_RESET_AFTER_SECS
         IN [h EXCEPT !.streak = 0, !.span = None, !.quiet = quiet,
                      !.since = IF quiet THEN None ELSE @,
                      !.armed = IF quiet THEN FALSE ELSE @]

HistListFailed(h) == [h EXCEPT !.streak = 0, !.span = None]

HistEndTick(h) ==
    [h EXCEPT !.hit = FALSE, !.quiet = FALSE,
              !.ever5 = @ \/ h.hit, !.armed = @ \/ h.hit,
              !.rolled = (phase = "roll")]

TimePasses(d) ==
    /\ backoff' = Elapse(backoff, d)
    /\ hist' = HistElapse(hist, d)

---------------------------------------------------------------------------
(* The steps of the loop: one per await *)

(* line 87 answers; lines 89-119; the loops of lines 121-145 start.  ls is  *)
(* the list result, cl its classification, b2 BackoffState after line 119  *)
ListOk ==
    /\ pc = "list"
    /\ \E ls \in {list_containers(containers)} :
       \E cl \in {Classify(ls)} :
       \E b2 \in {IF cl.dead /= <<>> THEN register_failure(backoff)
                   ELSE maybe_reset(backoff)} :
          /\ cl.dead /= <<>> => backoff.consecutive_failures < MaxFailures
          /\ listing' = ls
          /\ running' = cl.running
          /\ dead' = cl.dead
          /\ backoff' = b2
          /\ hist' = HistObserve(hist, cl.dead)
          /\ \E c \in {StartCleanup(cl.dead, cl.running, b2, desired)} : Apply(c)
    /\ outdated' = <<>>
    /\ log' = <<Call("list", EmptyId, TRUE)>>
    /\ UNCHANGED <<containers, desired, new_id, prev_result, ticks>>

(* ListErr with the failed list counted as a failure of the service *)
ListErrCountsFailure ==
    /\ pc = "list"
    /\ Apply(End("err", "list", "none"))
    /\ log' = <<Call("list", EmptyId, FALSE)>>
    /\ hist' = HistListFailed(hist)
    /\ backoff' = register_failure(backoff)
    /\ UNCHANGED <<containers, desired, listing, running, dead,
                   outdated, new_id, prev_result, ticks>>

(* line 87 fails: the ? returns the error *)
ListErr ==
    /\ pc = "list"
    /\ Apply(End("err", "list", "none"))
    /\ log' = <<Call("list", EmptyId, FALSE)>>
    /\ hist' = HistListFailed(hist)
    /\ UNCHANGED <<containers, desired, backoff, listing, running, dead,
                   outdated, new_id, prev_result, ticks>>

(* graceful_remove_container, line 241: the result of stop is dropped *)
Stop(ok) ==
    /\ pc = "stop"
    /\ ok => IsUp(containers, Target)
    /\ containers' = IF ok THEN stop_container(containers, Target) ELSE containers
    /\ log' = Append(log, StopCall(Target, ok))
    /\ pc' = "remove"
    /\ UNCHANGED <<desired, backoff, phase, i, listing, running, dead, outdated,
                   new_id, gate, result, prev_result, ticks, hist>>

(* what follows a graceful_remove_container that returned Ok *)
AfterRemove ==
    IF phase = "dead"
    THEN IF i < Len(dead) THEN Ctl("stop", "dead", i + 1, "none", "none")
         ELSE StartInspect(running, backoff, desired)
    ELSE IF phase = "roll"
    THEN IF i < Len(running) THEN Ctl("create", "roll", i + 1, "none", "none")
         ELSE End("ok", "roll", "none")
    ELSE IF i < to_kill(running, desired)
         THEN Ctl("stop", "down", i + 1, "none", "none")
         ELSE End("ok", "down", "none")

(* Remove with the error of line 253 dropped like that of the stop *)
RemoveKeepGoing(ok) ==
    /\ pc = "remove"
    /\ ok => CanRemove(containers, Target, RemoveForce)
    /\ containers' = IF ok THEN remove_container(containers, Target) ELSE containers
    /\ log' = Append(log, RemoveCall(Target, ok))
    /\ Apply(AfterRemove)
    /\ UNCHANGED <<desired, backoff, listing, running, dead, outdated, new_id,
                   prev_result, ticks, hist>>

(* graceful_remove_container, lines 244-255 *)
Remove(ok) ==
    /\ pc = "remove"
    /\ ok => CanRemove(containers, Target, RemoveForce)
    /\ containers' = IF ok THEN remove_container(containers, Target) ELSE containers
    /\ log' = Append(log, RemoveCall(Target, ok))
    /\ Apply(IF ok THEN AfterRemove ELSE End("err", phase, gate))
    /\ UNCHANGED <<desired, backoff, listing, running, dead, outdated, new_id,
                   prev_result, ticks, hist>>

(* lines 130-150 *)
Inspect(ok) ==
    /\ pc = "inspect"
    /\ ok => Exists(containers, running[i])
    /\ log' = Append(log, Call("inspect", running[i], ok))
    /\ IF ok
       THEN LET outd == IF inspect_version(containers, running[i]) /= Some(IMAGE)
                        THEN Append(outdated, running[i]) ELSE outdated
            IN /\ outdated' = outd
               /\ Apply(IF i < Len(running)
                        THEN Ctl("inspect", "inspect", i + 1, "none", "none")
                        ELSE Decide(running, outd, backoff, desired))
       ELSE /\ outdated' = outdated
            /\ Apply(End("err", "inspect", "none"))
    /\ UNCHANGED <<containers, desired, backoff, listing, running, dead, new_id,
                   prev_result, ticks, hist>>

(* spawn_replica_and_get_id, lines 186-207 *)
Create(ok, cap) ==
    /\ pc = "create"
    /\ ok => Len(containers) < cap
    /\ log' = Append(log, Call("create", FreshId, ok))
    /\ IF ok
       THEN /\ containers' = create_container(containers, FreshId)
            /\ new_id' = FreshId
            /\ pc' = "start"
            /\ UNCHANGED <<phase, i, result, gate>>
       ELSE /\ Apply(End("err", phase, gate))
            /\ UNCHANGED <<containers, new_id>>
    /\ UNCHANGED <<desired, backoff, listing, running, dead, outdated,
                   prev_result, ticks, hist>>

(* AfterSpawn without the settle delay of line 265 *)
AfterSpawnNoSettle ==
    IF phase = "roll" THEN Ctl("stop", "roll", i, "none", "none")
    ELSE IF i < to_spawn(running, desired)
         THEN Ctl("create", "up", i + 1, "none", gate)
         ELSE End("ok", "up", gate)

(* what follows a spawn_replica_and_get_id that returned Ok *)
AfterSpawn ==
    IF phase = "roll" THEN Ctl("settle", "roll", i, "none", "none")
    ELSE IF i < to_spawn(running, desired)
         THEN Ctl("create", "up", i + 1, "none", gate)
         ELSE End("ok", "up", gate)

(* Start with a rollback: a container that fails to start is removed *)
StartRollsBack(ok) ==
    /\ pc = "start"
    /\ ok => Exists(containers, new_id)
    /\ containers' = IF ok THEN start_container(containers, new_id)
                     ELSE remove_container(containers, new_id)
    /\ log' = Append(log, Call("start", new_id, ok))
    /\ Apply(IF ok THEN AfterSpawn ELSE End("err", phase, gate))
    /\ UNCHANGED <<desired, backoff, listing, running, dead, outdated, new_id,
                   prev_result, ticks, hist>>

(* spawn_replica_and_get_id, lines 209-214 *)
Start(ok) ==
    /\ pc = "start"
    /\ ok => Exists(containers, new_id)
    /\ containers' = IF ok THEN start_container(containers, new_id) ELSE containers
    /\ log' = Append(log, Call("start", new_id, ok))
    /\ Apply(IF ok THEN AfterSpawn ELSE End("err", phase, gate))
    /\ UNCHANGED <<desired, backoff, listing, running, dead, outdated, new_id,
                   prev_result, ticks, hist>>

(* perform_rolling_update, line 265 *)
Settle ==
    /\ pc = "settle"
    /\ TimePasses(SETTLE_SECS)
    /\ log' = Append(log, Call("settle", new_id, TRUE))
    /\ pc' = "stop"
    /\ UNCHANGED <<containers, desired, phase, i, listing, running, dead,
                   outdated, new_id, gate, result, prev_result, ticks>>

(* Pause with a loop that goes on after Ok only: an Err leaves the loop *)
PauseAfterOk(d, cap) ==
    /\ pc = "sleep"
    /\ result = "ok"
    /\ ticks < cap
    /\ d >= TICK_INTERVAL_SECS
    /\ backoff' = Elapse(backoff, d)
    /\ hist' = HistElapse(HistEndTick(hist), d)
    /\ prev_result' = result
    /\ ticks' = ticks + 1
    /\ Apply(Ctl("list", "list", 0, "none", "none"))
    /\ listing' = <<>>
    /\ running' = <<>>
    /\ dead' = <<>>
    /\ outdated' = <<>>
    /\ new_id' = EmptyId
    /\ log' = <<>>
    /\ UNCHANGED <<containers, desired>>

(* main, lines 64-70: the result is logged, the loop sleeps and calls       *)
(* reconcile again; the locals of the finished call are gone.  d is the    *)
(* time from the return of reconcile to the answer of the next list: the   *)
(* sleep of line 69 lasts TICK_INTERVAL_SECS at least.  The other awaits   *)
(* of a tick take no time of their own.                                    *)
Pause(d, cap) ==
    /\ pc = "sleep"
    /\ ticks < cap
    /\ d >= TICK_INTERVAL_SECS
    /\ backoff' = Elapse(backoff, d)
    /\ hist' = HistElapse(HistEndTick(hist), d)
    /\ prev_result' = result
    /\ ticks' = ticks + 1
    /\ Apply(Ctl("list", "list", 0, "none", "none"))
    /\ listing' = <<>>
    /\ running' = <<>>
    /\ dead' = <<>>
    /\ outdated' = <<>>
    /\ new_id' = EmptyId
    /\ log' = <<>>
    /\ UNCHANGED <<containers, desired>>

Pauses == {TICK_INTERVAL_SECS}
PausesLong ==
    {TICK_INTERVAL_SECS, BACKOFF_DURATION_SECS,
     FAILURE_RESET_AFTER_SECS, FAILURE_RESET_AFTER_SECS + 1}

---------------------------------------------------------------------------
(* The specifications of the loop.  Spec starts from every inventory of    *)
(* MaxInit containers at most and runs MaxTicks ticks; SpecLong starts     *)
(* from the inventories of MaxInitLong containers and runs MaxTicksLong    *)
(* ticks, with pauses long enough for the windows of the backoff.          *)

DesiredChoices == 1..DESIRED_REPLICAS

Inventories(n) ==
    UNION {[1..m -> Profiles] : m \in 0..n}

Start0(inv, des) ==
    /\ desired = des
    /\ containers = [k \in 1..Len(inv) |-> Container(k, inv[k])]
    /\ backoff = BackoffDefault
    /\ hist = HistInit
    /\ pc = "list"
    /\ phase = "list"
    /\ i = 0
    /\ listing = <<>>
    /\ running = <<>>
    /\ dead = <<>>
    /\ outdated = <<>>
    /\ new_id = EmptyId
    /\ gate = "none"
    /\ result = "none"
    /\ prev_result = "none"
    /\ log = <<>>
    /\ ticks = 1

Init == \E inv \in Inventories(MaxInit), des \in DesiredChoices : Start0(inv, des)

(* the inventories of SpecLong, one of dead containers only, one more than *)
(* MaxInitLong, so that a tick observes several dead at once, and one of a *)
(* dead container beside one running replica more than desired, so that a  *)
(* tick has both a cleanup and a scale-down to do                          *)
InventoriesLong ==
    Inventories(MaxInitLong)
        \cup {[k \in 1..(MaxInitLong + 1) |-> ProfExited]}
        \cup {[k \in 1..(DESIRED_REPLICAS + 2) |->
                    IF k = 1 THEN ProfExited ELSE ProfCurrent]}

InitLong == \E inv \in InventoriesLong : Start0(inv, DESIRED_REPLICAS)

Run(maxc, maxt, pauses) ==
    \/ ListErr
    \/ ListOk
    \/ \E ok \in BOOLEAN : Stop(ok)
    \/ \E ok \in BOOLEAN : Remove(ok)
    \/ \E ok \in BOOLEAN : Inspect(ok)
    \/ \E ok \in BOOLEAN : Create(ok, maxc)
    \/ \E ok \in BOOLEAN : Start(ok)
    \/ Settle
    \/ \E d \in pauses : Pause(d, maxt)

Next == Run(MaxContainers, MaxTicks, Pauses)

NextLong == Run(MaxContainersLong, MaxTicksLong, PausesLong)

Spec == Init /\ [][Next]_vars

SpecLong == InitLong /\ [][NextLong]_vars

(* the loop of Spec with its scheduling: one task, every await of which is *)
(* answered (the runtime answers each call with success or failure, a      *)
(* sleep ends), so a step that can be taken is taken                       *)
SpecLive == Init /\ [][Next]_vars /\ WF_vars(Next)

---------------------------------------------------------------------------
(* The loop with a runtime that fails for a while and then recovers: in    *)
(* the first FaultyTicks ticks a call is answered with success or with     *)
(* failure, from then on every call the runtime can carry out succeeds (a  *)
(* stop of a container that is not running still fails, and its result is  *)
(* dropped), and a started replica stays running.  The runs are long       *)
(* enough for a rolling update, a scale adjustment and two ticks more, and *)
(* the runtime has room for the containers of these ticks.                 *)

MaxTicksConverge == FaultyTicks + 4
MaxContainersConverge == MaxInit + FaultyTicks + 1

RunGood(maxc, maxt) ==
    \/ ListOk
    \/ Stop(IsUp(containers, Target))
    \/ Remove(CanRemove(containers, Target, RemoveForce))
    \/ Inspect(Exists(containers, running[i]))
    \/ Create(TRUE, maxc)
    \/ Start(Exists(containers, new_id))
    \/ Settle
    \/ \E d \in Pauses : Pause(d, maxt)

NextConverge ==
    \/ /\ ticks <= FaultyTicks
       /\ Run(MaxContainersConverge, MaxTicksConverge, Pauses)
    \/ /\ ticks > FaultyTicks
       /\ RunGood(MaxContainersConverge, MaxTicksConverge)

SpecConverge == Init /\ [][NextConverge]_vars /\ WF_vars(NextConverge)

---------------------------------------------------------------------------
(* The loop of SpecLong with an image that does not start: every create    *)
(* succeeds and every start fails.  No spawn returns Ok, so the settle     *)
(* delay of the rolling update is never reached.                           *)

NextBroken ==
    \/ ListErr
    \/ ListOk
    \/ \E ok \in BOOLEAN : Stop(ok)
    \/ \E ok \in BOOLEAN : Remove(ok)
    \/ \E ok \in BOOLEAN : Inspect(ok)
    \/ Create(TRUE, MaxContainersLong)
    \/ Start(FALSE)
    \/ \E d \in PausesLong : Pause(d, MaxTicksLong)

SpecBroken == InitLong /\ [][NextBroken]_vars

---------------------------------------------------------------------------
(* The State Observer alone: the runtime has answered the list call with   *)
(* any records, fields present or missing, and lines 89-106 classify them. *)
(* The identifiers the runtime does report are distinct.                   *)

SummaryIds == {None, Some(1), Some(2)}
SummaryStates == {None, Some("RUNNING"), Some("EXITED")}
SummaryStatuses ==
    {None, Some(StrUp3), Some(StrUpper), Some(StrExited1), Some(StrCreated)}
Summaries == [id : SummaryIds, state : SummaryStates, status : SummaryStatuses]

ListResults ==
    {ls \in UNION {[1..n -> Summaries] : n \in 0..MaxObs} :
        \A j, k \in 1..Len(ls) :
            (j /= k /\ ls[j].id /= None) => ls[j].id /= ls[k].id}

InitClassify ==
    /\ listing \in ListResults
    /\ pc = "classify"
    /\ phase = "list"
    /\ containers = <<>>
    /\ desired = DESIRED_REPLICAS
    /\ backoff = BackoffDefault
    /\ hist = HistInit
    /\ i = 0
    /\ running = <<>>
    /\ dead = <<>>
    /\ outdated = <<>>
    /\ new_id = EmptyId
    /\ gate = "none"
    /\ result = "none"
    /\ prev_result = "none"
    /\ log = <<>>
    /\ ticks = 1

Observe ==
    /\ pc = "classify"
    /\ running' = Classify(listing).running
    /\ dead' = Classify(listing).dead
    /\ pc' = "classified"
    /\ UNCHANGED <<containers, desired, backoff, phase, i, listing, outdated,
                   new_id, gate, result, prev_result, log, ticks, hist>>

NextClassify == Observe

SpecClassify == InitClassify /\ [][NextClassify]_vars

---------------------------------------------------------------------------
(* Vocabulary of the claims *)

Count(s, v) == Cardinality({k \in 1..Len(s) : s[k] = v})
ObservedIds == [k \in 1..Len(listing) |-> SummaryId(listing[k])]
Classified == pc \notin {"classify", "list"} /\ ~(pc = "sleep" /\ phase = "list")

(* the rule of the specification, on the status texts of the model: of     *)
(* these, "Up 3 seconds" and "RUNNING" contain "up" or "running" when      *)
(* lower-cased                                                             *)
RuleRunning(c) ==
    \/ c.state = Some("RUNNING")
    \/ c.status \in {Some(StrUp3), Some(StrUpper)}

IdsWhere(ls, Test(_)) ==
    LET sel == SelectSeq(ls, Test) IN [k \in 1..Len(sel) |-> SummaryId(sel[k])]

---------------------------------------------------------------------------
(* C1, as claimed: after the classification no identifier is in both       *)
(* running and dead, and the identifiers of the two together are exactly   *)
(* the observed ones, also when identifiers are missing.                   *)
C1_PartitionById ==
    Classified =>
        /\ Elems(running) \cap Elems(dead) = {}
        /\ Elems(running) \cup Elems(dead) = Elems(ObservedIds)

(* C1, amended: every observed record lands in exactly one of the two      *)
(* sequences (each identifier occurs in running and dead together as often *)
(* as it was observed), and when the identifiers are distinct after the    *)
(* defaulting (one record at most lacks its identifier) no identifier is   *)
(* in both.                                                                *)
C1_PartitionByRecord ==
    Classified =>
        /\ Len(running) + Len(dead) = Len(listing)
        /\ \A v \in Elems(ObservedIds) \cup Elems(running) \cup Elems(dead) :
               Count(running, v) + Count(dead, v) = Count(ObservedIds, v)
        /\ (\A j, k \in 1..Len(listing) : j /= k => ObservedIds[j] /= ObservedIds[k])
               => Elems(running) \cap Elems(dead) = {}

(* C1, witness: two records were classified, one of them without an        *)
(* identifier and without a state, one running and one dead.               *)
C1_Witness ==
    /\ pc = "classified"
    /\ Len(listing) = 2
    /\ \E k \in 1..2 : listing[k].id = None /\ listing[k].state = None
    /\ Len(running) = 1
    /\ Len(dead) = 1

(* C2: a replica is classified running exactly when its state is RUNNING   *)
(* or its status text, lower-cased, contains "up" or "running"; every      *)
(* other replica is classified dead, order kept.                           *)
C2_HybridRule ==
    Classified =>
        /\ running = IdsWhere(listing, RuleRunning)
        /\ dead = IdsWhere(listing, LAMBDA c : ~RuleRunning(c))

(* C2, witness: "Up 3 seconds" with a missing state was classified running *)
(* and state exited with "Exited (1)" dead.                                *)
C2_Witness ==
    /\ pc = "classified"
    /\ listing = << [id |-> Some(1), state |-> None, status |-> Some(StrUp3)],
                    [id |-> Some(2), state |-> Some("EXITED"),
                     status |-> Some(StrExited1)] >>
    /\ running = <<1>>
    /\ dead = <<2>>

---------------------------------------------------------------------------
(* Vocabulary of the claims about a tick *)

TickEnded == pc = "sleep"
DecisionReached == phase \in {"roll", "up", "down", "backoff", "steady"}
NoDrift == DecisionReached /\ outdated = <<>>
Drift == DecisionReached /\ outdated /= <<>>

(* every call answered with success; the answer of a stop is dropped by    *)
(* graceful_remove_container and is not looked at                          *)
CallsOk == \A k \in 1..Len(log) : log[k].op = "stop" \/ log[k].ok

Calls(op) == SelectSeq(log, LAMBDA c : c.op = op)
CallIds(op) == [k \in 1..Len(Calls(op)) |-> Calls(op)[k].id]

(* the calls of the tick as <<operation, id>>; the name of a new replica   *)
(* is not foretold, so it is left out                                      *)
Shape(c) == <<c.op, IF c.op \in {"create", "start", "settle"} THEN EmptyId ELSE c.id>>
LogShape == [k \in 1..Len(log) |-> Shape(log[k])]

RECURSIVE GraceShape(_)
GraceShape(ids) ==
    IF ids = <<>> THEN <<>>
    ELSE << <<"stop", Head(ids)>>, <<"remove", Head(ids)>> >> \o GraceShape(Tail(ids))

InspectShape(ids) == [k \in 1..Len(ids) |-> <<"inspect", ids[k]>>]

RECURSIVE SpawnShape(_)
SpawnShape(n) ==
    IF n = 0 THEN <<>>
    ELSE << <<"create", EmptyId>>, <<"start", EmptyId>> >> \o SpawnShape(n - 1)

RECURSIVE RollShape(_)
RollShape(ids) ==
    IF ids = <<>> THEN <<>>
    ELSE << <<"create", EmptyId>>, <<"start", EmptyId>>, <<"settle", EmptyId>>,
            <<"stop", Head(ids)>>, <<"remove", Head(ids)>> >> \o RollShape(Tail(ids))

(* list, cleanup of the dead and inspection of the running: every tick     *)
(* that reaches the decision has issued these                              *)
PreambleShape ==
    << <<"list", EmptyId>> >> \o GraceShape(dead) \o InspectShape(running)

IsPrefix(s, t) == Len(s) <= Len(t) /\ s = SubSeq(t, 1, Len(s))

(* every start is issued for the replica the create before it created *)
StartsFollowCreates ==
    \A k \in 1..Len(log) :
        log[k].op = "start" =>
            k > 1 /\ log[k - 1].op = "create" /\ log[k - 1].id = log[k].id

NowRunning == Cardinality(RunningIds(containers))
NextRunning == Classify(list_containers(containers)).running

---------------------------------------------------------------------------
(* C3: a tick without drift, with fewer running replicas than desired, the *)
(* backoff gate open and every call answered with success issues exactly   *)
(* desired - running_count spawns, each a create followed by the start of  *)
(* the created replica, and stops or removes no running replica.           *)
C3_ScaleUp ==
    (/\ TickEnded
     /\ NoDrift
     /\ Len(running) < desired
     /\ ~in_backoff(backoff)
     /\ CallsOk)
    => /\ LogShape = PreambleShape \o SpawnShape(desired - Len(running))
       /\ StartsFollowCreates
       /\ result = "ok"

(* C3, witness: desired is 3, one replica ran, and the tick has ended      *)
(* after two creates and two starts.                                       *)
C3_Witness ==
    /\ TickEnded
    /\ desired = 3
    /\ Len(running) = 1
    /\ NoDrift
    /\ CallsOk
    /\ Len(Calls("create")) = 2
    /\ Len(Calls("start")) = 2
    /\ Len(Calls("remove")) = Len(dead)

(* C4: a tick without drift, with more running replicas than desired and   *)
(* every call answered with success gracefully removes the first           *)
(* running_count - desired entries of running, in order, and spawns none.  *)
C4_ScaleDown ==
    (/\ TickEnded
     /\ NoDrift
     /\ Len(running) > desired
     /\ CallsOk)
    => /\ LogShape = PreambleShape
                       \o GraceShape(SubSeq(running, 1, Len(running) - desired))
       /\ Elems(SubSeq(running, 1, Len(running) - desired)) \cap Ids(containers) = {}
       /\ result = "ok"

(* C4, witness: desired is 1, three replicas ran, and the tick has ended   *)
(* after removing the first two of them.                                   *)
C4_Witness ==
    /\ TickEnded
    /\ desired = 1
    /\ Len(running) = 3
    /\ NoDrift
    /\ CallsOk
    /\ CallIds("remove") = dead \o SubSeq(running, 1, 2)
    /\ Len(Calls("create")) = 0

---------------------------------------------------------------------------
NoAction ==
    /\ Calls("create") = <<>>
    /\ Calls("start") = <<>>
    /\ Calls("stop") = <<>>
    /\ Calls("remove") = <<>>

(* C5, as claimed: a second pass that finds running_count equal to desired *)
(* and no running replica outdated issues no create, start, stop or remove *)
(* and returns success.                                                    *)
C5_SecondPassIdle ==
    (/\ ticks >= 2
     /\ TickEnded
     /\ NoDrift
     /\ Len(running) = desired)
    => (NoAction /\ result = "ok")

(* C5, amended: a second pass that observes no dead replica, finds         *)
(* running_count equal to desired and no running replica outdated issues   *)
(* no create, start, stop or remove and returns success; and a second pass *)
(* observes no dead replica whenever the first pass returned success.      *)
C5_SecondPassIdleNoDead ==
    /\ (/\ ticks >= 2
        /\ TickEnded
        /\ NoDrift
        /\ dead = <<>>
        /\ Len(running) = desired)
       => (NoAction /\ result = "ok")
    /\ (ticks >= 2 /\ prev_result = "ok" /\ Classified) => dead = <<>>

(* C5, witness: the first pass spawned and returned success, and the       *)
(* second pass has ended with as many running as desired and no call but   *)
(* the list and the inspections.                                           *)
C5_Witness ==
    /\ ticks = 2
    /\ prev_result = "ok"
    /\ TickEnded
    /\ NoDrift
    /\ Len(running) = desired
    /\ \E k \in 1..Len(running) : running[k] > MaxInit
    /\ NoAction
    /\ result = "ok"

---------------------------------------------------------------------------
(* the scenario of C8: desired is 2, two replicas run, both are outdated,  *)
(* and every call so far was answered with success                         *)
C8_Scenario ==
    /\ phase = "roll"
    /\ desired = 2
    /\ Len(running) = 2
    /\ outdated = running
    /\ CallsOk

(* C8: in that scenario the tick performs exactly two cycles of create,    *)
(* start, settle delay, stop and remove of the old replica, in this order  *)
(* and in the order observed; two replicas at least run at every step of   *)
(* it; and neither old identifier is in the running set the next tick      *)
(* will observe.                                                           *)
C8_RollingScenario ==
    C8_Scenario =>
        /\ NowRunning >= 2
        /\ IsPrefix(LogShape, PreambleShape \o RollShape(running))
        /\ StartsFollowCreates
        /\ TickEnded =>
              /\ LogShape = PreambleShape \o RollShape(running)
              /\ result = "ok"
              /\ Elems(running) \cap Elems(NextRunning) = {}
              /\ Len(NextRunning) = 2

(* C8, witness: the scenario's tick has ended with success after two       *)
(* settle delays, both replicas bearing a stale version label.             *)
C8_Witness ==
    /\ C8_Scenario
    /\ TickEnded
    /\ result = "ok"
    /\ Len(Calls("settle")) = 2
    /\ containers /= <<>>
    /\ \A k \in 1..Len(listing) : listing[k].state = Some("RUNNING")

(* C9, as claimed: at every point of any rolling update the number of      *)
(* running replicas is at least desired and at most one more than at the   *)
(* start of the update.                                                    *)
C9_AtLeastDesired ==
    phase = "roll" =>
        /\ NowRunning >= desired
        /\ NowRunning <= Len(running) + 1

(* C9, amended: at every point of any rolling update the number of running *)
(* replicas is at least the number that ran at the start of the update (so *)
(* at least desired when the update started with desired or more), and at  *)
(* most one more than at its start.                                        *)
C9_AtLeastStart ==
    phase = "roll" =>
        /\ NowRunning >= Len(running)
        /\ Len(running) >= desired => NowRunning >= desired
        /\ NowRunning <= Len(running) + 1

(* C9, witness: a rolling update that began with three running replicas    *)
(* has removed the first and started the replacement of the second.        *)
C9_Witness ==
    /\ phase = "roll"
    /\ Len(running) = 3
    /\ i = 2
    /\ pc = "settle"
    /\ NowRunning = 4

(* C10: a tick that finds a running replica whose version label is not the *)
(* desired image, or is missing, performs the rolling update over the      *)
(* running sequence and nothing else: its calls are the cleanup, the       *)
(* inspections and then, for each running replica in order, one spawn, the *)
(* settle delay and the graceful removal, cut short by the first error     *)
(* only; no further spawn and no scale-down removal, whatever              *)
(* running_count is.                                                       *)
C10_DriftPreempts ==
    Drift =>
        /\ phase = "roll"
        /\ IsPrefix(LogShape, PreambleShape \o RollShape(running))
        /\ (TickEnded /\ result = "ok")
               => LogShape = PreambleShape \o RollShape(running)
        /\ (TickEnded /\ CallsOk) => result = "ok"

(* C10, witness: one replica ran, without a version label, desired is 3,   *)
(* and the tick has ended with success after one replacement.              *)
C10_Witness ==
    /\ Drift
    /\ TickEnded
    /\ result = "ok"
    /\ desired = 3
    /\ Len(running) = 1
    /\ Len(listing) = 1
    /\ Len(Calls("create")) = 1
    /\ Len(containers) = 1

---------------------------------------------------------------------------
(* the tick of C6: it reached the decision without drift, with fewer       *)
(* running than desired, fewer than 30s after the last recorded failure    *)
C6_Tick ==
    /\ NoDrift
    /\ Len(running) < desired
    /\ hist.since /= None
    /\ hist.since[1] < BACKOFF_DURATION_SECS

C6_NoSpawn ==
    /\ Calls("create") = <<>>
    /\ Calls("start") = <<>>
    /\ TickEnded
    /\ result = "ok"

(* C6, as claimed: once 5 consecutive ticks have each observed a non-empty *)
(* dead set within 30s, any later tick with running_count < desired and no *)
(* drift, run fewer than 30s after the last recorded failure, issues no    *)
(* create or start and returns success.                                    *)
C6_GateAfterFive == (hist.ever5 /\ C6_Tick) => C6_NoSpawn

(* C6, amended: the same, for the later ticks up to the first one that     *)
(* observes an empty dead set more than 300s after the last recorded       *)
(* failure; that tick resets the counter, and the gate is open again until *)
(* five more failures are recorded.                                        *)
C6_GateUntilReset == (hist.armed /\ C6_Tick) => C6_NoSpawn

(* C6, witness: after five failing ticks a tick that observed no dead      *)
(* replica and fewer running than desired has ended with success, without  *)
(* a spawn, fewer than 30s after the last failure.                         *)
C6_Witness ==
    /\ hist.armed
    /\ C6_Tick
    /\ dead = <<>>
    /\ TickEnded
    /\ result = "ok"
    /\ Calls("create") = <<>>

---------------------------------------------------------------------------
ListAnswered == pc = "list" /\ log' /= <<>> /\ log'[1].ok

C7_Step ==
    IF ListAnswered
    THEN IF dead' /= <<>>
         THEN /\ backoff'.consecutive_failures = backoff.consecutive_failures + 1
              /\ backoff'.last_failure = Some(0)
         ELSE IF /\ backoff.last_failure /= None
                 /\ backoff.last_failure[1] > FAILURE_RESET_AFTER_SECS
              THEN /\ backoff'.consecutive_failures = 0
                   /\ backoff'.last_failure = None
              ELSE backoff' = backoff
    ELSE /\ backoff'.consecutive_failures = backoff.consecutive_failures
         /\ (backoff'.last_failure = None) = (backoff.last_failure = None)

(* C7: the counter is reset to 0 and the timestamp cleared exactly by a    *)
(* tick that observes an empty dead set while a last-failure timestamp     *)
(* exists that is more than 300s old; a tick that observes an empty dead   *)
(* set otherwise leaves BackoffState as it is; a tick that observes a      *)
(* non-empty dead set adds exactly 1 to the counter, however many are      *)
(* dead, and stamps the time; nothing else changes the counter.            *)
C7_BackoffUpdates == [][C7_Step]_vars

(* C7, witness: a tick has observed an empty dead set more than 300s after *)
(* the last failure, and the counter is 0 and the timestamp cleared.       *)
C7_Witness ==
    /\ hist.quiet
    /\ dead = <<>>
    /\ backoff = BackoffDefault

---------------------------------------------------------------------------
LastCall == log[Len(log)]

(* C11, as claimed: graceful_remove issues a stop with a grace of 5s and   *)
(* then, whether or not the stop succeeded, a forced remove (force = true) *)
(* of the same id; a failed stop never ends the tick with an error, and a  *)
(* failed remove always does.                                              *)
C11_ForcedRemove ==
    /\ \A k \in 1..Len(log) :
           /\ log[k].op = "stop" => log[k].t = 5
           /\ log[k].op = "remove" =>
                 /\ log[k].force = TRUE
                 /\ k > 1
                 /\ log[k - 1].op = "stop"
                 /\ log[k - 1].id = log[k].id
    /\ (log /= <<>> /\ LastCall.op = "stop") => (pc = "remove" /\ result = "none")
    /\ (log /= <<>> /\ LastCall.op = "remove" /\ ~LastCall.ok)
           => (TickEnded /\ result = "err")

---------------------------------------------------------------------------
StopRemove(shape) == SelectSeq(shape, LAMBDA c : c[1] \in {"stop", "remove"})

(* the stops and removes a tick issues when no call fails, computed from   *)
(* what the tick observed and never from BackoffState                      *)
C12_StopRemove ==
    GraceShape(dead)
        \o (IF outdated /= <<>> THEN StopRemove(RollShape(running))
            ELSE IF Len(running) > desired
                 THEN GraceShape(SubSeq(running, 1, Len(running) - desired))
                 ELSE <<>>)

(* C12: the stops and removes of a tick, for the dead replicas and for the *)
(* scale-down, are fixed by the observed inventory and the answers of the  *)
(* runtime, the same whether in_backoff() is true or false; BackoffState   *)
(* decides one thing only, whether the scale-up branch spawns: the gate is *)
(* consulted only without drift and with fewer running than desired,       *)
(* closed exactly when in_backoff() holds, and a closed gate ends the tick *)
(* with success and without a create.                                      *)
C12_NarrowGate ==
    Classified =>
        /\ IsPrefix(StopRemove(LogShape), C12_StopRemove)
        /\ (TickEnded /\ result = "ok") => StopRemove(LogShape) = C12_StopRemove
        /\ gate /= "none" <=> (NoDrift /\ Len(running) < desired)
        /\ gate = "closed" <=>
              (NoDrift /\ Len(running) < desired /\ in_backoff(backoff))
        /\ gate = "closed" =>
              (TickEnded /\ result = "ok" /\ Calls("create") = <<>>)
        /\ gate = "open" => phase = "up"

(* C12, witness: while in_backoff() holds a tick has removed a dead        *)
(* replica and then scaled down by one, and ended with success.            *)
C12_Witness ==
    /\ in_backoff(backoff)
    /\ TickEnded
    /\ result = "ok"
    /\ phase = "down"
    /\ dead /= <<>>
    /\ Len(running) = desired + 1
    /\ CallIds("remove") = dead \o <<running[1]>>

---------------------------------------------------------------------------
(* the step main takes when reconcile has returned, lines 65-69: whatever  *)
(* was returned, the loop sleeps and calls reconcile again, with the same  *)
(* BackoffState, only older                                                *)
C13_Step ==
    pc = "sleep" =>
        /\ pc' = "list"
        /\ ticks' = ticks + 1
        /\ prev_result' = result
        /\ containers' = containers
        /\ backoff'.consecutive_failures = backoff.consecutive_failures
        /\ (backoff'.last_failure = None) = (backoff.last_failure = None)
        /\ backoff.last_failure /= None
              => backoff'.last_failure[1] >= backoff.last_failure[1]

(* C13: whenever a tick ends, with success or with an error of any call,   *)
(* the loop sleeps and starts another tick, BackoffState kept; every tick  *)
(* ends; the loop does not terminate (here: it reaches the last tick the   *)
(* model runs, whatever the ticks before returned).                        *)
C13_LoopContinues ==
    /\ [][C13_Step]_vars
    /\ (pc = "sleep" /\ ticks < MaxTicks) ~> (pc = "list")
    /\ <>(ticks = MaxTicks /\ pc = "sleep")

(* C13, witness: the first tick recorded a failure and returned an error,  *)
(* and the second tick has started with that failure recorded.             *)
C13_Witness ==
    /\ ticks = 2
    /\ pc = "list"
    /\ prev_result = "err"
    /\ backoff = [consecutive_failures |-> 1, last_failure |-> Some(TICK_INTERVAL_SECS)]

---------------------------------------------------------------------------
(* exactly desired replicas, all running, all labelled with the desired    *)
(* version, and no other container of the service                          *)
Converged ==
    /\ Len(containers) = desired
    /\ \A k \in 1..Len(containers) :
           /\ SummaryRunning(containers[k])
           /\ containers[k].version = Some(IMAGE)

(* the desired state, at a point of the loop where no replacement is under *)
(* way: between two ticks, or in a tick that has observed it and inspects  *)
C14_Settled ==
    /\ Converged
    /\ \/ pc \in {"list", "sleep"}
       \/ pc = "inspect" /\ dead = <<>> /\ outdated = <<>>

(* a step that issues no create, start, stop or remove *)
C14_IdleStep ==
    \/ log' = <<>>
    \/ log'[Len(log')].op \in {"list", "inspect"}

(* C14: from any inventory, once every call succeeds and started replicas  *)
(* stay running, the ticks reach a state with exactly desired running      *)
(* replicas, all labelled with the desired version, and no dead replica,   *)
(* and remain in it; from then on no tick issues a create, start, stop or  *)
(* remove.                                                                 *)
C14_Converges ==
    /\ <>[]Converged
    /\ <>[]C14_Settled
    /\ [][(ticks > FaultyTicks /\ C14_Settled) => (C14_Settled' /\ C14_IdleStep)]_vars

(* C14, witness: after a tick with failures that left a dead replica and   *)
(* after a rolling update in the tick before, a tick has found the desired *)
(* state and done nothing.                                                 *)
C14_Witness ==
    /\ Converged
    /\ ticks = FaultyTicks + 3
    /\ TickEnded
    /\ phase = "steady"
    /\ NoAction
    /\ backoff.consecutive_failures = 2
    /\ desired = 3

---------------------------------------------------------------------------
(* a call other than a stop that was answered with a failure *)
Failed(c) == c.op /= "stop" /\ ~c.ok

C15_Abort ==
    /\ \A k \in 1..Len(log) : Failed(log[k]) => k = Len(log)
    /\ (log /= <<>> /\ Failed(LastCall)) => (TickEnded /\ result = "err")
    /\ result = "err" => (TickEnded /\ log /= <<>> /\ Failed(LastCall))
    /\ (TickEnded /\ phase = "dead") =>
          /\ result = "err"
          /\ CallIds("remove") = SubSeq(dead, 1, Len(Calls("remove")))
          /\ \A k \in Len(Calls("remove"))..Len(dead) : Exists(containers, dead[k])
          /\ LogShape = << <<"list", EmptyId>> >>
                            \o GraceShape(SubSeq(dead, 1, Len(Calls("remove"))))
    /\ (TickEnded /\ result = "err" /\ phase = "up") =>
          /\ LastCall.op \in {"create", "start"}
          /\ Len(SelectSeq(Calls("start"), LAMBDA c : c.ok)) < desired - Len(running)
          /\ Len(SelectSeq(Calls("start"), LAMBDA c : c.ok))
                 = Len(Calls("create")) - 1
    /\ (TickEnded /\ result = "err" /\ dead /= <<>>) =>
          /\ backoff.consecutive_failures >= 1
          /\ backoff.last_failure /= None

(* a step whose call fails changes neither the containers nor BackoffState *)
C15_Step ==
    (pc /= "sleep" /\ ~log'[Len(log')].ok) =>
        /\ containers' = containers
        /\ backoff' = backoff

(* C15: in a tick the first list, inspect, create, start or remove that    *)
(* fails ends the tick with an error, and no call follows it; a failed     *)
(* removal of a dead replica leaves the remaining dead unremoved, the      *)
(* running uninspected and the scale untouched, a failed spawn leaves the  *)
(* remaining spawns undone; what the tick did before is kept, the recorded *)
(* failure included.                                                       *)
C15_FirstErrorAbort == []C15_Abort /\ [][C15_Step]_vars

(* C15, witness: of two dead replicas the first could not be removed; the  *)
(* tick has ended with an error, the second dead replica and the running   *)
(* one untouched, the failure recorded.                                    *)
C15_Witness ==
    /\ TickEnded
    /\ result = "err"
    /\ phase = "dead"
    /\ Len(dead) = 2
    /\ Len(running) = 1
    /\ Len(log) = 3
    /\ Len(containers) = 3
    /\ backoff.consecutive_failures = 1

---------------------------------------------------------------------------
(* the tick observed, first in its list, a container that was created and  *)
(* never started                                                           *)
C16_Unstarted ==
    /\ Classified
    /\ listing /= <<>>
    /\ listing[1].state = Some("CREATED")

C16_Spawn ==
    \* a failed start ends the tick with an error; the created container is
    \* left, the newest of the service, and no remove was issued for it
    /\ (log /= <<>> /\ LastCall.op = "start" /\ ~LastCall.ok) =>
          /\ TickEnded /\ result = "err"
          /\ containers /= <<>>
          /\ containers[1].id = LastCall.id
          /\ containers[1].state = Some("CREATED")
          /\ \A k \in 1..Len(log) : log[k].op = "remove" => log[k].id /= LastCall.id
    \* a failed create is followed by no call, and every start follows the
    \* successful create of the container it starts
    /\ \A k \in 1..Len(log) :
          /\ (log[k].op = "create" /\ ~log[k].ok) => k = Len(log)
          /\ log[k].op = "start" =>
                (k > 1 /\ log[k - 1] = Call("create", log[k].id, TRUE))

C16_Cleanup ==
    C16_Unstarted =>
        /\ dead /= <<>>
        /\ dead[1] = SummaryId(listing[1])
        /\ backoff.consecutive_failures >= 1
        /\ backoff.last_failure /= None
        /\ IsPrefix(SubSeq(LogShape, 1, Min(3, Len(log))),
                    << <<"list", EmptyId>>, <<"stop", dead[1]>>, <<"remove", dead[1]>> >>)
        /\ TickEnded => Len(log) >= 3
        /\ (Len(log) >= 3 /\ log[3].ok) => ~Exists(containers, dead[1])

(* the sleep between two ticks leaves the containers as they are, and a    *)
(* list that finds a dead replica records one failure                      *)
C16_Step ==
    /\ pc = "sleep" => containers' = containers
    /\ (pc = "list" /\ dead' /= <<>>) => backoff' = register_failure(backoff)

(* C16: when the create of a spawn succeeds and its start fails, the spawn *)
(* returns the error and the created container is left as it is in that    *)
(* tick; the next tick whose list succeeds finds it first in the list,     *)
(* classifies it dead, records a failure, and issues its graceful removal  *)
(* before anything else; when the create fails no start is issued.         *)
C16_UnstartedCleanup == [](C16_Spawn /\ C16_Cleanup) /\ [][C16_Step]_vars

(* C16, witness: the first tick ended with the error of a start; the       *)
(* second tick found the created container, recorded the failure and has   *)
(* removed it.                                                             *)
C16_Witness ==
    /\ ticks = 2
    /\ prev_result = "err"
    /\ C16_Unstarted
    /\ dead = <<SummaryId(listing[1])>>
    /\ backoff.consecutive_failures = 1
    /\ Len(log) >= 3
    /\ log[3].ok
    /\ TickEnded

---------------------------------------------------------------------------
(* the tick before went into the rolling update and ended with an error *)
C17_Aborted == hist.rolled /\ prev_result = "err"

(* an aborted rolling update keeps what it did: the replicas it started    *)
(* run, labelled with the desired version, and the replicas it removed are *)
(* gone                                                                    *)
C17_NoRollback ==
    (TickEnded /\ phase = "roll" /\ result = "err") =>
        \A k \in 1..Len(log) :
            /\ (log[k].op = "start" /\ log[k].ok) =>
                  /\ IsUp(containers, log[k].id)
                  /\ inspect_version(containers, log[k].id) = Some(IMAGE)
            /\ (log[k].op = "remove" /\ log[k].ok) => ~Exists(containers, log[k].id)

(* C17, as claimed: the tick after an aborted rolling update replaces the  *)
(* replicas that are still outdated, and no replica that carries the       *)
(* desired version label.                                                  *)
C17_ResumeOutdatedOnly ==
    /\ C17_NoRollback
    /\ (C17_Aborted /\ phase = "roll") =>
          \A k \in 1..Len(log) :
              (log[k].op = "remove" /\ log[k].id \in Elems(running))
                  => log[k].id \in Elems(outdated)

(* C17, amended: an aborted rolling update is not rolled back; the next    *)
(* tick, when it finds a running replica still outdated, performs the      *)
(* rolling update over every running replica it observed, those that carry *)
(* the desired version label included (the replicas the aborted update had *)
(* spawned are replaced again); when it finds none outdated it performs no *)
(* rolling update.                                                         *)
C17_ResumeOverRunning ==
    /\ C17_NoRollback
    /\ (C17_Aborted /\ DecisionReached) =>
          /\ \A id \in Elems(running) \cap Ids(containers) :
                 id \in Elems(outdated) <=>
                     inspect_version(containers, id) /= Some(IMAGE)
          /\ outdated /= <<>> =>
                 /\ phase = "roll"
                 /\ IsPrefix(LogShape, PreambleShape \o RollShape(running))
                 /\ (TickEnded /\ result = "ok") =>
                        /\ LogShape = PreambleShape \o RollShape(running)
                        /\ CallIds("remove") = dead \o running
                        /\ Elems(running) \cap Ids(containers) = {}
          /\ outdated = <<>> => (phase /= "roll" /\ Calls("settle") = <<>>)

(* C17, witness: after an aborted rolling update a tick found one replica  *)
(* outdated and one that carries the desired version label, and has        *)
(* replaced both.                                                          *)
C17_Witness ==
    /\ C17_Aborted
    /\ phase = "roll"
    /\ TickEnded
    /\ result = "ok"
    /\ Len(running) = 2
    /\ Len(outdated) = 1
    /\ CallIds("remove") = dead \o running

---------------------------------------------------------------------------
(* the cleanup of the dead replicas has run, as far as the removals        *)
(* succeeded                                                               *)
C18_CleanupRuns ==
    /\ IsPrefix(LogShape, << <<"list", EmptyId>> >> \o GraceShape(dead))
          \/ IsPrefix(<< <<"list", EmptyId>> >> \o GraceShape(dead), LogShape)
    /\ TickEnded => (Len(log) >= 3 \/ dead = <<>>)

(* C18, as claimed: with an image whose every start fails, once the        *)
(* counter is 5 or more no tick issues a create while in_backoff() holds,  *)
(* on any branch, the rolling update included; the cleanup of the dead     *)
(* still runs in such a tick.                                              *)
C18_NoCreateInBackoff ==
    (Classified /\ in_backoff(backoff)) =>
        /\ Calls("create") = <<>>
        /\ C18_CleanupRuns

(* C18, what holds of it: the same with the rolling update left out; the   *)
(* creates issued while in_backoff() holds are those of line 263.          *)
C18_NoCreateOutsideRoll ==
    (Classified /\ in_backoff(backoff)) =>
        /\ Calls("create") /= <<>> => phase = "roll"
        /\ C18_CleanupRuns

---------------------------------------------------------------------------
C19_ListFailed == log /= <<>> /\ log[1].op = "list" /\ ~log[1].ok

C19_Step ==
    (pc = "list" /\ ~log'[1].ok) =>
        /\ backoff' = backoff
        /\ containers' = containers

(* C19: when the list of a tick fails, reconcile returns the error having  *)
(* issued no other call, no inspect, create, start, stop or remove, and    *)
(* the tick leaves the counter and the timestamp of BackoffState as they   *)
(* were.                                                                   *)
C19_ListFailure ==
    /\ [](C19_ListFailed =>
            /\ log = <<Call("list", EmptyId, FALSE)>>
            /\ TickEnded
            /\ result = "err"
            /\ running = <<>> /\ dead = <<>> /\ outdated = <<>>)
    /\ []((TickEnded /\ phase = "list") => C19_ListFailed)
    /\ [][C19_Step]_vars

(* C19, witness: the first tick recorded a failure; the list of the second *)
(* tick failed while a dead replica was there, and BackoffState is as the  *)
(* first tick left it, 5s older.                                           *)
C19_Witness ==
    /\ C19_ListFailed
    /\ ticks = 2
    /\ TickEnded
    /\ \E k \in 1..Len(containers) : ~SummaryRunning(containers[k])
    /\ backoff = [consecutive_failures |-> 1, last_failure |-> Some(TICK_INTERVAL_SECS)]

---------------------------------------------------------------------------
(* a create that succeeds adds one container of the service, the newest,   *)
(* labelled with the desired image; no step changes the version label of a *)
(* container; an inspection of a replica so labelled adds nothing to       *)
(* outdated                                                                *)
C20_Step ==
    /\ (pc = "create" /\ log'[Len(log')].ok) =>
          /\ containers' = <<Head(containers')>> \o containers
          /\ Head(containers').id = log'[Len(log')].id
          /\ Head(containers').version = Some(IMAGE)
          /\ ~Exists(containers, Head(containers').id)
    /\ \A id \in Ids(containers) \cap Ids(containers') :
          inspect_version(containers', id) = inspect_version(containers, id)
    /\ (pc = "inspect" /\ inspect_version(containers, running[i]) = Some(IMAGE))
          => outdated' = outdated

C20_Labelled ==
    \* a replica is judged outdated only if its version label is not the
    \* desired image
    /\ \A id \in Elems(outdated) \cap Ids(containers) :
          inspect_version(containers, id) /= Some(IMAGE)
    \* after a rolling update that returned Ok the containers of the service
    \* are the replicas it spawned: as many as it replaced, running, labelled
    /\ (TickEnded /\ phase = "roll" /\ result = "ok") =>
          /\ Ids(containers) = Elems(CallIds("create"))
          /\ Len(containers) = Len(running)
          /\ \A k \in 1..Len(containers) :
                 /\ SummaryRunning(containers[k])
                 /\ containers[k].version = Some(IMAGE)
    \* and the tick after it lists them all, judges none outdated and
    \* performs no rolling update
    /\ (hist.rolled /\ prev_result = "ok" /\ Classified) =>
          /\ running = ObservedIds
          /\ running /= <<>>
          /\ dead = <<>>
          /\ outdated = <<>>
          /\ phase /= "roll"

(* C20: every replica spawn creates carries the version label of the       *)
(* desired image and is a container of the service, so the next list finds *)
(* it and the drift check never judges it outdated; a rolling update that  *)
(* returned Ok is followed by a tick without a rolling update (no replica  *)
(* appears in the model that the reconciler did not spawn).                *)
C20_SpawnedNeverOutdated == []C20_Labelled /\ [][C20_Step]_vars

(* C20, witness: the first tick replaced two outdated replicas and         *)
(* returned Ok; the second tick has inspected the two new replicas and     *)
(* gone on to the scale-up, desired being 3.                               *)
C20_Witness ==
    /\ hist.rolled
    /\ prev_result = "ok"
    /\ ticks = 2
    /\ desired = 3
    /\ Len(running) = 2
    /\ Len(Calls("inspect")) = 2
    /\ phase = "up"
    /\ TickEnded
    /\ result = "ok"

===========================================================================
